---- MODULE Spec2Model ----
(***************************************************************************)
(* massivedl: the concurrent download engine of cmd/massivedl/massivedl.go *)
(* (run, worker, download, registerSignalHandlers, saveProgress).          *)
(*                                                                         *)
(* One process; goroutines: main (run), p.ConcurrentRequests workers, the  *)
(* SIGINT handler.  The status printer only reads stats and stopWorking    *)
(* and is left out.  stopWorking is a plain bool shared without            *)
(* synchronisation: a worker's read (line 289) is its own step, so the     *)
(* handler's write (line 201) may fall before or after it.                 *)
(***************************************************************************)
EXTENDS Integers, Sequences, FiniteSets, Bags, TLC

\* ---- bounds of the model ----
MaxJobs == 2
MaxRetriesBound == 1
\* processes in a chain of resumed runs (SpecResume)
MaxRuns == 2

\* basenames of URL paths; NilURL is the nil *url.URL that loadURLs appends
\* for a line url.Parse rejects (lines 70-75)
Names == {"a.png", "b.png"}
NilURL == "nil"
\* an input line url.Parse rejects (invalid escape)
BadLine == "%zz"
\* a URL for which http.NewRequest returns an error (line 237)
BrokenURL == "c.png"
AllNames == Names \cup {BrokenURL}
\* the size of the body the server holds for each basename
BodySize(name) == IF name = "a.png" THEN 1 ELSE 2
\* the status code of the server's response for each basename
Status(name) == IF name = "a.png" THEN 200 ELSE 404

\* the worker goroutines; the flag -workers (line 85) is drawn from 1..2
Workers == {1, 2}
JobIds == 1..MaxJobs

RECURSIVE SeqsUpTo(_, _)
SeqsUpTo(S, n) ==
    IF n = 0 THEN {<<>>}
    ELSE LET shorter == SeqsUpTo(S, n - 1)
         IN  shorter \cup {Append(s, x) : s \in {t \in shorter : Len(t) = n - 1}, x \in S}

VARIABLES
    p,            \* cmdLineParams (line 57)
    stats,        \* statistics.Statistics (line 56)
    stopWorking,  \* line 58
    urls,         \* the slice loadURLs returned (line 320)
    fs,           \* the output directory: basename -> file
    mainPc, sendIdx, recvCount,   \* run(): position, the two loop counters
    results,      \* the buffered results channel (line 347)
    pc, cur, logRow,   \* per worker: position, j, res
    sigPc,        \* the handler goroutine of registerSignalHandlers
    procState,    \* "running", "done", "interrupted" (os.Exit(0)), "panic"
    saveFile,     \* what saveProgress wrote, <<>> when nothing
    \* history, read by the properties only
    fetch,        \* per worker: how the retry loop just ended (until its next step)
    requested,    \* per job: a network request was made for it
    skipped,      \* per job: took the skip-existing branch
    emitted,      \* per job: results sent for it
    fileOps,      \* per job: os.Create calls made for it
    lateStarts,   \* per worker: jobs begun while stopWorking was set
    observed,     \* per worker: has read stopWorking as true
    abandoned,    \* jobs begun before the flag was raised and cut off by the exit
    panicCause,
    runs,         \* processes started so far; also the clock at process start
    beforeSave    \* p and stats as saveProgress found them, <<>> when never called

vars == <<p, stats, stopWorking, urls, fs, mainPc, sendIdx, recvCount, results,
          pc, cur, logRow, sigPc, procState, saveFile,
          fetch, requested, skipped, emitted, fileOps, lateStarts, observed,
          abandoned, panicCause, runs, beforeSave>>

mainVars == <<mainPc, sendIdx, recvCount>>
workerLocals == <<cur, logRow, fetch>>
history == <<requested, skipped, emitted, fileOps, lateStarts, observed,
             abandoned, panicCause>>
session == <<runs, beforeSave>>

\* ---- files ----
Absent == [exists |-> FALSE, by |-> 0, size |-> 0]
OldFile == [exists |-> TRUE, by |-> 0, size |-> 1]

\* ---- internal/statistics (not in src/) ----
\* The counters, the four rate fields and StartTime.  Three rate fields are
\* named by loadProgress (lines 181-183); the fourth, the current files/sec,
\* is not named anywhere in src/.
statisticsNew(now) ==
    [TotalDownloads |-> 0, completedOK |-> 0, completedFailed |-> 0,
     bytesDownloaded |-> 0, FilesRemaining |-> 0,
     AverageSpeedBytesPerSec |-> 0, AverageSpeedFilesPerSec |-> 0,
     SpeedBytesPerSec |-> 0, SpeedFilesPerSec |-> 0,
     StartTime |-> now]

\* the rates as sampled one tick after the start: totals per tick
statsSample(s) ==
    [s EXCEPT !.AverageSpeedBytesPerSec = s.bytesDownloaded,
              !.AverageSpeedFilesPerSec = s.completedOK + s.completedFailed,
              !.SpeedBytesPerSec = s.bytesDownloaded,
              !.SpeedFilesPerSec = s.completedOK + s.completedFailed]

statsUpdate(s, row) ==
    statsSample(
        [s EXCEPT !.completedOK = IF row.Result THEN @ + 1 ELSE @,
                  !.completedFailed = IF row.Result THEN @ ELSE @ + 1,
                  !.FilesRemaining = @ - 1,
                  !.bytesDownloaded = @ + row.NBytes])

\* line 217: logRow as download starts with it
NewLogRow(j) == [job |-> j, Result |-> FALSE, NBytes |-> 0, Duration |-> 0]

NoFetch == [end |-> "none", response |-> "nil", status |-> 0, reqs |-> 0, fails |-> 0]

Running == procState = "running"

\* lines 66-78: one entry per input line, in order; url.Parse returns a nil
\* URL with its error, and line 75 appends it all the same
loadURLs(lines) ==
    [i \in 1..Len(lines) |-> IF lines[i] = BadLine THEN NilURL ELSE lines[i]]

\* lines 101-107: the flags
Flags ==
    [ConcurrentRequests : Workers, MaxRetries : 0..MaxRetriesBound,
     SkipExisting : BOOLEAN, Offset : {0}]

\* the output directory as the run finds it
Directories ==
    {[n \in AllNames |-> IF n \in present THEN OldFile ELSE Absent] :
         present \in {{}, {"a.png"}}}

\* main before run (lines 386-389), on the input file `lines`
Start(lines) ==
    /\ p \in Flags
    /\ stats = statisticsNew(1)
    /\ stopWorking = FALSE
    /\ urls = loadURLs(lines)
    /\ fs \in Directories
    /\ runs = 1
    /\ beforeSave = <<>>
    /\ mainPc = "setup" /\ sendIdx = 0 /\ recvCount = 0
    /\ results = EmptyBag
    /\ pc = [w \in Workers |-> "off"]
    /\ cur = [w \in Workers |-> 0]
    /\ logRow = [w \in Workers |-> NewLogRow(0)]
    /\ sigPc = "off"
    /\ procState = "running"
    /\ saveFile = <<>>
    /\ fetch = [w \in Workers |-> NoFetch]
    /\ requested = [j \in JobIds |-> FALSE]
    /\ skipped = [j \in JobIds |-> FALSE]
    /\ emitted = [j \in JobIds |-> 0]
    /\ fileOps = [j \in JobIds |-> 0]
    /\ lateStarts = [w \in Workers |-> 0]
    /\ observed = [w \in Workers |-> FALSE]
    /\ abandoned = {}
    /\ panicCause = "none"

Init == \E lines \in SeqsUpTo(Names \cup {BadLine}, MaxJobs) : Start(lines)

\* input files with a line whose request cannot be built
InitRequestFailure ==
    \E lines \in SeqsUpTo({"a.png", BrokenURL}, MaxJobs) : Start(lines)

\* a worker between passing line 289 and sending its result
InFlight == {"stat", "skipsend", "dl", "create", "copy", "update", "send"}

\* The process ends (main returns, os.Exit, or a panic): every goroutine
\* ends where it is, and the channel goes with them.
Exit(how) ==
    /\ procState' = how
    /\ abandoned' = {cur[w] : w \in {v \in Workers : pc[v] \in InFlight
                                                      /\ lateStarts[v] = 0}}
    /\ pc' = [w \in Workers |-> "dead"]
    /\ cur' = [w \in Workers |-> 0]
    /\ logRow' = [w \in Workers |-> NewLogRow(0)]
    /\ results' = EmptyBag
    /\ sigPc' = "dead"

\* ---- run() ----

\* lines 310-364: clear the flag, register the handler, load the urls, size
\* the results channel, start the workers
RunSetup ==
    /\ Running /\ mainPc = "setup"
    /\ stopWorking' = FALSE
    /\ sigPc' = "wait"
    /\ stats' = [stats EXCEPT !.TotalDownloads = Len(urls)]
    /\ results' = EmptyBag
    /\ pc' = [w \in Workers |-> IF w <= p.ConcurrentRequests THEN "recv" ELSE "off"]
    /\ mainPc' = "send"
    /\ UNCHANGED <<session, p, urls, fs, sendIdx, recvCount, workerLocals, procState,
                   saveFile, history>>

\* Which waiting receiver gets a job is the runtime's choice.  The workers
\* are identical goroutines (worker ignores its index), so among waiting
\* workers with equal histories the least stands for all.
Receiver(w) ==
    /\ pc[w] = "recv"
    /\ \A v \in Workers :
          (v < w /\ pc[v] = "recv") => lateStarts[v] # lateStarts[w]

\* lines 367-369 with line 288: jobs is unbuffered, so the send and one
\* worker's receive are one step
MainSend(w) ==
    /\ Running /\ mainPc = "send"
    /\ sendIdx < stats.TotalDownloads
    /\ Receiver(w)
    /\ sendIdx' = sendIdx + 1
    /\ cur' = [cur EXCEPT ![w] = sendIdx + 1]
    /\ pc' = [pc EXCEPT ![w] = "check"]
    /\ UNCHANGED <<session, p, stats, stopWorking, urls, fs, mainPc, recvCount, results,
                   logRow, fetch, sigPc, procState, saveFile, history>>

\* line 370
MainClose ==
    /\ Running /\ mainPc = "send"
    /\ sendIdx >= stats.TotalDownloads
    /\ mainPc' = "drain"
    /\ UNCHANGED <<session, p, stats, stopWorking, urls, fs, sendIdx, recvCount, results,
                   pc, workerLocals, sigPc, procState, saveFile, history>>

ResultsCapOneShort == stats.TotalDownloads - 1

\* line 347: cap(results)
ResultsCap == stats.TotalDownloads

DrainDoneEarly == recvCount + 1 >= stats.TotalDownloads

\* line 373
DrainDone == recvCount >= stats.TotalDownloads

\* lines 373-375: run discards what it receives, so the buffer's order is
\* not observable and results is held as a bag
MainRecv ==
    /\ Running /\ mainPc = "drain"
    /\ ~DrainDone
    /\ \E e \in BagToSet(results) : results' = results (-) SetToBag({e})
    /\ recvCount' = recvCount + 1
    /\ UNCHANGED <<session, p, stats, stopWorking, urls, fs, mainPc, sendIdx,
                   pc, workerLocals, sigPc, procState, saveFile, history>>

\* lines 377-380 and main's return: the process ends
MainFinish ==
    /\ Running /\ mainPc = "drain"
    /\ DrainDone
    /\ mainPc' = "done"
    /\ Exit("done")
    /\ UNCHANGED <<session, p, stats, stopWorking, urls, fs, sendIdx, recvCount, fetch,
                   saveFile, requested, skipped, emitted, fileOps, lateStarts,
                   observed, panicCause>>

\* ---- worker() ----

Panic(cause) ==
    /\ Exit("panic")
    /\ panicCause' = cause

\* the end of a loop iteration: j, res and download's locals are dead
ForgetLocals(w) ==
    /\ cur' = [cur EXCEPT ![w] = 0]
    /\ logRow' = [logRow EXCEPT ![w] = NewLogRow(0)]
    /\ fetch' = [fetch EXCEPT ![w] = NoFetch]

\* line 288 on the closed, empty jobs channel: the range loop ends
WorkerClosed(w) ==
    /\ Running /\ pc[w] = "recv"
    /\ mainPc \in {"drain", "done"}
    /\ pc' = [pc EXCEPT ![w] = "closed"]
    /\ UNCHANGED <<session, p, stats, stopWorking, urls, fs, mainVars, results,
                   workerLocals, sigPc, procState, saveFile, history>>

StopIgnored == FALSE

\* the read of stopWorking at line 289
StopObserved == stopWorking

WorkerContinue(w) == pc' = [pc EXCEPT ![w] = "recv"]

\* line 290
WorkerBreak(w) == pc' = [pc EXCEPT ![w] = "stopped"]

\* lines 289-291
WorkerCheck(w) ==
    /\ Running /\ pc[w] = "check"
    /\ IF StopObserved
       THEN /\ WorkerBreak(w)
            /\ observed' = [observed EXCEPT ![w] = TRUE]
       ELSE /\ pc' = [pc EXCEPT ![w] = "stat"]
            /\ UNCHANGED observed
    /\ UNCHANGED <<session, p, stats, stopWorking, urls, fs, mainVars, results,
                   workerLocals, sigPc, procState, saveFile, requested,
                   skipped, emitted, fileOps, lateStarts, abandoned, panicCause>>

\* line 295
SkipDecision(name) == fs[name].exists /\ p.SkipExisting

\* lines 293-295 and the entry of download (lines 216-222); j.Path on a
\* nil URL is a nil dereference
WorkerStat(w) ==
    /\ Running /\ pc[w] = "stat"
    /\ LET j == cur[w] IN
       IF urls[j] = NilURL
       THEN /\ Panic("nilURL")
            /\ UNCHANGED <<skipped, lateStarts>>
       ELSE /\ lateStarts' = [lateStarts EXCEPT ![w] = IF stopWorking THEN @ + 1 ELSE @]
            /\ IF SkipDecision(urls[j])
               THEN /\ skipped' = [skipped EXCEPT ![j] = TRUE]
                    /\ pc' = [pc EXCEPT ![w] = "skipsend"]
                    /\ UNCHANGED logRow
               ELSE /\ pc' = [pc EXCEPT ![w] = "dl"]
                    /\ logRow' = [logRow EXCEPT ![w] = NewLogRow(j)]
                    /\ UNCHANGED skipped
            /\ UNCHANGED <<procState, panicCause, abandoned, cur, results, sigPc>>
    /\ UNCHANGED <<session, p, stats, stopWorking, urls, fs, mainVars, fetch,
                   saveFile, requested, emitted, fileOps, observed>>

SkipResultFailed(j) == NewLogRow(j)

\* line 296
SkipResult(j) == [job |-> j, Result |-> TRUE, NBytes |-> 0, Duration |-> 0]

\* lines 296-297: the send blocks while the channel holds cap(results)
\* entries; then continue
WorkerSkipSend(w) ==
    /\ Running /\ pc[w] = "skipsend"
    /\ BagCardinality(results) < ResultsCap
    /\ results' = results (+) SetToBag({SkipResult(cur[w])})
    /\ emitted' = [emitted EXCEPT ![cur[w]] = @ + 1]
    /\ pc' = [pc EXCEPT ![w] = "recv"]
    /\ ForgetLocals(w)
    /\ UNCHANGED <<session, p, stats, stopWorking, urls, fs, mainVars,
                   sigPc, procState, saveFile, requested,
                   skipped, fileOps, lateStarts, observed, abandoned, panicCause>>

\* ---- download() ----

\* what client.Do may return (line 244): a response; a transport error
\* with a nil response; or the redirect policy's error, which comes with a
\* response whose body is already closed
DoOutcomes == {"ok", "neterr", "redirerr"}

\* the network's answers to the requests a job may make, in order
Answers == [1..(p.MaxRetries + 1) -> DoOutcomes]

RetriesExhaustedEarly(totalTries) == totalTries >= p.MaxRetries

\* line 230
RetriesExhausted(totalTries) == totalTries > p.MaxRetries

\* line 236: http.NewRequest returns an error
NewRequestFails(url) == url = BrokenURL

\* line 244: what client.Do returns for `url` on the network's answer
DoResult(url, answer) ==
    [err |-> answer # "ok",
     response |-> CASE answer = "ok" -> "open"
                    [] answer = "neterr" -> "nil"
                    [] OTHER -> "closed",
     status |-> IF answer = "ok" THEN Status(url) ELSE 0]

RetryOnErrorStatus(res) == res.err \/ res.status >= 400

\* line 245: only err decides; response.StatusCode is never read
Retry(res) == res.err

\* lines 229-252: the retry loop, from totalTries tries and reqs requests
\* made so far; resp is the response variable (line 218)
RECURSIVE RetryLoop(_, _, _, _, _)
RetryLoop(url, totalTries, resp, reqs, answers) ==
    IF RetriesExhausted(totalTries)
    THEN [end |-> "exhausted", response |-> resp.response, status |-> resp.status,
          reqs |-> reqs, fails |-> totalTries]
    ELSE IF NewRequestFails(url)
    THEN [end |-> "reqerr", response |-> resp.response, status |-> resp.status,
          reqs |-> reqs, fails |-> totalTries]
    ELSE LET res == DoResult(url, answers[reqs + 1])
         IN  IF Retry(res)
             THEN RetryLoop(url, totalTries + 1, res, reqs + 1, answers)
             ELSE [end |-> "ok", response |-> res.response, status |-> res.status,
                   reqs |-> reqs + 1, fails |-> totalTries]

\* lines 216-254: the retry loop runs to its end.  On line 231 the deferred
\* closure of lines 223-227 runs: response is what the last client.Do left,
\* nil after a transport error, and response.Body dereferences it.  After
\* either break (lines 239, 251) download goes on to line 254.
\* Duration (line 254): the clock advances one tick across the loop.
DownloadFetch(w, answers) ==
    /\ Running /\ pc[w] = "dl"
    /\ LET r == RetryLoop(urls[cur[w]], 0, [response |-> "nil", status |-> 0], 0, answers)
       IN  /\ fetch' = [fetch EXCEPT ![w] = r]
           /\ requested' = [requested EXCEPT ![cur[w]] = r.reqs > 0]
           /\ IF r.end \in {"ok", "reqerr"}
              THEN /\ logRow' = [logRow EXCEPT ![w].Duration = 1]
                   /\ pc' = [pc EXCEPT ![w] = "create"]
                   /\ UNCHANGED <<procState, panicCause, abandoned, cur, results, sigPc>>
              ELSE IF r.response = "nil"
              THEN Panic("deferClose")
              ELSE /\ pc' = [pc EXCEPT ![w] = "update"]
                   /\ UNCHANGED <<logRow, procState, panicCause, abandoned, cur,
                                  results, sigPc>>
    /\ UNCHANGED <<session, p, stats, stopWorking, urls, fs, mainVars,
                   saveFile, skipped, emitted, fileOps, lateStarts, observed>>

\* lines 256-268: os.Create makes or truncates the file; of the loop's
\* outcome only the response variable is still live
DownloadCreate(w) ==
    /\ Running /\ pc[w] = "create"
    /\ fs' = [fs EXCEPT ![urls[cur[w]]] = [exists |-> TRUE, by |-> cur[w], size |-> 0]]
    /\ fileOps' = [fileOps EXCEPT ![cur[w]] = @ + 1]
    /\ pc' = [pc EXCEPT ![w] = "copy"]
    /\ fetch' = [fetch EXCEPT ![w] = [NoFetch EXCEPT !.response = fetch[w].response]]
    /\ UNCHANGED <<session, p, stats, stopWorking, urls, mainVars, results, cur, logRow,
                   sigPc, procState, saveFile, requested,
                   skipped, emitted, lateStarts, observed, abandoned, panicCause>>

\* lines 275-284 and the deferred closes; response.Body on line 275
\* dereferences response, which is nil when the loop ended at line 239
DownloadCopy(w) ==
    /\ Running /\ pc[w] = "copy"
    /\ IF fetch[w].response = "nil"
       THEN /\ Panic("nilBody")
            /\ UNCHANGED <<fs, fetch>>
       ELSE /\ fs' = [fs EXCEPT ![urls[cur[w]]] =
                        [exists |-> TRUE, by |-> cur[w], size |-> BodySize(urls[cur[w]])]]
            /\ logRow' = [logRow EXCEPT ![w].Result = TRUE,
                                        ![w].NBytes = BodySize(urls[cur[w]])]
            /\ pc' = [pc EXCEPT ![w] = "update"]
            /\ fetch' = [fetch EXCEPT ![w] = NoFetch]
            /\ UNCHANGED <<procState, panicCause, abandoned, cur, results, sigPc>>
    /\ UNCHANGED <<session, p, stats, stopWorking, urls, mainVars,
                   saveFile, requested, skipped, emitted, fileOps, lateStarts,
                   observed>>

\* line 300 (and 301, which prints)
WorkerUpdate(w) ==
    /\ Running /\ pc[w] = "update"
    /\ stats' = statsUpdate(stats, logRow[w])
    /\ pc' = [pc EXCEPT ![w] = "send"]
    /\ fetch' = [fetch EXCEPT ![w] = NoFetch]
    /\ UNCHANGED <<session, p, stopWorking, urls, fs, mainVars, results, cur, logRow,
                   sigPc, procState, saveFile, history>>

\* lines 302-304: emit, sleep p.DelayPerRequest, next iteration
WorkerSend(w) ==
    /\ Running /\ pc[w] = "send"
    /\ BagCardinality(results) < ResultsCap
    /\ results' = results (+) SetToBag({logRow[w]})
    /\ emitted' = [emitted EXCEPT ![cur[w]] = @ + 1]
    /\ pc' = [pc EXCEPT ![w] = "recv"]
    /\ ForgetLocals(w)
    /\ UNCHANGED <<session, p, stats, stopWorking, urls, fs, mainVars,
                   sigPc, procState, saveFile, requested,
                   skipped, fileOps, lateStarts, observed, abandoned, panicCause>>

\* ---- registerSignalHandlers() ----

\* lines 200-203: SIGINT arrives, the handler raises the flag
Sigint ==
    /\ Running /\ sigPc = "wait"
    /\ stopWorking' = TRUE
    /\ sigPc' = "prompt"
    /\ UNCHANGED <<session, p, stats, urls, fs, mainVars, results, pc, workerLocals,
                   procState, saveFile, history>>

\* line 147: the fields of cmdLineParams under their json tags (lines 39-46);
\* Statistics as it is
jsonMarshal(save) ==
    [cmdLineParams |->
         [concurrentRequests |-> save.Parameters.ConcurrentRequests,
          maxRetries |-> save.Parameters.MaxRetries,
          offset |-> save.Parameters.Offset,
          skipExisting |-> save.Parameters.SkipExisting],
     stats |-> save.Stats]

\* line 173
jsonUnmarshal(b) ==
    [Parameters |->
         [ConcurrentRequests |-> b.cmdLineParams.concurrentRequests,
          MaxRetries |-> b.cmdLineParams.maxRetries,
          SkipExisting |-> b.cmdLineParams.skipExisting,
          Offset |-> b.cmdLineParams.offset],
     Stats |-> b.stats]

\* lines 141-154: line 142 assigns the global p before it is copied
saveProgress ==
    /\ beforeSave' = [p |-> p, stats |-> stats]
    /\ p' = [p EXCEPT !.Offset = stats.TotalDownloads - stats.FilesRemaining - 1]
    /\ saveFile' = jsonMarshal([Parameters |-> p', Stats |-> stats])

\* lines 164-193: what the process has after loading the file b at time now
loadProgress(b, now) ==
    LET l == jsonUnmarshal(b)
    IN  [stats |-> [l.Stats EXCEPT !.AverageSpeedBytesPerSec = 0,
                                   !.AverageSpeedFilesPerSec = 0,
                                   !.SpeedBytesPerSec = 0,
                                   !.StartTime = now],
         p |-> l.Parameters]

\* lines 205-209: the user answers the prompt, saveProgress on yes, os.Exit(0)
SigAnswer(answer) ==
    /\ Running /\ sigPc = "prompt"
    /\ IF answer THEN saveProgress ELSE UNCHANGED <<p, saveFile, beforeSave>>
    /\ Exit("interrupted")
    /\ mainPc' = "dead" /\ sendIdx' = 0 /\ recvCount' = 0
    /\ fetch' = [w \in Workers |-> NoFetch]
    /\ UNCHANGED <<runs, stats, stopWorking, urls, fs, requested, skipped, emitted,
                   fileOps, lateStarts, observed, panicCause>>

\* A later process started with -load on the file the interrupted one
\* wrote: main (line 386), parseCmdLineParams (line 99), loadProgress.  The
\* URL file and the output directory are as the first process left them.
Resume ==
    /\ procState = "interrupted" /\ saveFile # <<>>
    /\ runs < MaxRuns
    /\ runs' = runs + 1
    /\ LET l == loadProgress(saveFile, runs')
       IN  stats' = l.stats /\ p' = l.p
    /\ stopWorking' = FALSE
    /\ mainPc' = "setup" /\ sendIdx' = 0 /\ recvCount' = 0
    /\ results' = EmptyBag
    /\ pc' = [w \in Workers |-> "off"]
    /\ cur' = [w \in Workers |-> 0]
    /\ logRow' = [w \in Workers |-> NewLogRow(0)]
    /\ sigPc' = "off"
    /\ procState' = "running"
    /\ fetch' = [w \in Workers |-> NoFetch]
    /\ requested' = [j \in JobIds |-> FALSE]
    /\ skipped' = [j \in JobIds |-> FALSE]
    /\ emitted' = [j \in JobIds |-> 0]
    /\ fileOps' = [j \in JobIds |-> 0]
    /\ lateStarts' = [w \in Workers |-> 0]
    /\ observed' = [w \in Workers |-> FALSE]
    /\ abandoned' = {}
    /\ panicCause' = "none"
    /\ UNCHANGED <<urls, fs, saveFile, beforeSave>>

\* ---- the program ----

MainStep == RunSetup \/ MainClose \/ MainRecv \/ MainFinish

WorkerStep ==
    \E w \in Workers :
        \/ MainSend(w)
        \/ WorkerClosed(w)
        \/ WorkerCheck(w)
        \/ WorkerStat(w)
        \/ WorkerSkipSend(w)
        \/ \E answers \in Answers : DownloadFetch(w, answers)
        \/ DownloadCreate(w)
        \/ DownloadCopy(w)
        \/ WorkerUpdate(w)
        \/ WorkerSend(w)

SignalStep == Sigint \/ (\E answer \in BOOLEAN : SigAnswer(answer))

Next == MainStep \/ WorkerStep \/ SignalStep

Spec == Init /\ [][Next]_vars

\* runs on input files with a URL whose request cannot be built
SpecRequestFailure == InitRequestFailure /\ [][Next]_vars

\* runs that may be interrupted, saved and resumed from the checkpoint
NextResume == Next \/ Resume

SpecResume == Init /\ [][NextResume]_vars

\* ---- properties ----

Completed == stats.completedOK + stats.completedFailed

\* C1: whenever a run has reached completion, completedOK + completedFailed
\* equals totalJobs and remaining is 0.
C1_FinalStatistics ==
    procState = "done" =>
        /\ Completed = stats.TotalDownloads
        /\ stats.FilesRemaining = 0

\* C2: in every state after the statistics are initialised,
\* completedOK + completedFailed + remaining equals totalJobs (so remaining
\* starts equal to totalJobs).
C2_StatisticsInvariant ==
    mainPc # "setup" =>
        Completed + stats.FilesRemaining = stats.TotalDownloads

\* C3: when a run ends normally with no interrupt, the coordinator has
\* received exactly totalJobs results and each enqueued job has produced
\* exactly one of them.
C3_OneResultPerJob ==
    (procState = "done" /\ ~stopWorking) =>
        /\ recvCount = stats.TotalDownloads
        /\ \A j \in 1..stats.TotalDownloads : emitted[j] = 1

C3_Witness ==
    /\ procState = "done" /\ ~stopWorking
    /\ stats.TotalDownloads = 2
    /\ \E j \in JobIds : skipped[j]
    /\ \E j \in JobIds : requested[j]

\* C4: when every attempt of a job fails at the transport level, download
\* returns a failed entry (Result false, NBytes 0) to the worker, which goes
\* on to record it; the process does not crash.
C4_ExhaustedRetriesReported ==
    \A w \in Workers :
        (fetch[w].end = "exhausted" /\ fetch[w].response = "nil") =>
            /\ Running
            /\ pc[w] = "update"
            /\ ~logRow[w].Result /\ logRow[w].NBytes = 0

\* C5: with no interrupt (and a list of parsed URLs) the run is never stuck
\* short of its end: until the final statistics are printed, main or some
\* worker can take a step.
C5_RunTerminates ==
    (/\ mainPc # "setup"
     /\ ~stopWorking
     /\ \A i \in 1..Len(urls) : urls[i] # NilURL) =>
        (procState = "done" \/ ENABLED (MainStep \/ WorkerStep))

\* C6: when the interrupt path ends the process, no job that was in flight
\* when the interrupt arrived is left without its result.
C6_InFlightJobsComplete ==
    procState = "interrupted" => abandoned = {}

\* C7: a worker that has read the stop flag as set does nothing more (its
\* position stays, and no request, file or result is added for the job it
\* held), and the flag, once set, stays set.
C7_StoppedWorkerStaysStopped ==
    [][/\ \A w \in Workers :
             observed[w] =>
                 /\ pc'[w] \in {"stopped", "dead"}
                 /\ cur[w] # 0 =>
                        /\ requested'[cur[w]] = requested[cur[w]]
                        /\ fileOps'[cur[w]] = fileOps[cur[w]]
                        /\ emitted'[cur[w]] = emitted[cur[w]]
       /\ stopWorking => stopWorking']_vars

C7_Witness ==
    /\ Running
    /\ \E w \in Workers : observed[w] /\ pc[w] = "stopped"
    /\ \E w \in Workers : pc[w] \in InFlight

\* C8: after the stop flag is set each worker begins at most one job, so at
\* most p.ConcurrentRequests jobs begin in total.
C8_BoundedLateStarts ==
    /\ \A w \in Workers : lateStarts[w] <= 1
    /\ Cardinality({w \in Workers : lateStarts[w] > 0}) <= p.ConcurrentRequests

C8_Witness ==
    /\ p.ConcurrentRequests = 2
    /\ \A w \in Workers : lateStarts[w] = 1

\* C9: a job that takes the skip-existing branch makes no network request,
\* creates or truncates no file, leaves the existing file as it was, and the
\* entry it emits has Result true, NBytes 0 and Duration 0.
C9_SkipExisting ==
    \A j \in JobIds :
        skipped[j] =>
            /\ ~requested[j]
            /\ fileOps[j] = 0
            /\ fs[urls[j]].exists /\ fs[urls[j]].by # j
            /\ emitted[j] <= 1
            /\ \A e \in BagToSet(results) :
                  e.job = j => e.Result /\ e.NBytes = 0 /\ e.Duration = 0

C9_Witness ==
    \E j \in JobIds :
        /\ skipped[j] /\ emitted[j] = 1
        /\ \E e \in BagToSet(results) : e.job = j

\* C10: a retry loop that ends with every attempt failed has made exactly
\* p.MaxRetries + 1 requests; one that ends with a response has made one
\* request more than it had failures, and at most p.MaxRetries + 1.
C10_AttemptCount ==
    \A w \in Workers :
        /\ fetch[w].end = "exhausted" =>
              /\ fetch[w].reqs = p.MaxRetries + 1
              /\ fetch[w].fails = fetch[w].reqs
        /\ fetch[w].end = "ok" =>
              /\ fetch[w].reqs = fetch[w].fails + 1
              /\ fetch[w].reqs <= p.MaxRetries + 1

C10_Witness ==
    /\ p.MaxRetries = 1
    /\ \E w \in Workers : fetch[w].end = "exhausted" /\ fetch[w].reqs = 2
    /\ \E w \in Workers : fetch[w].end = "ok" /\ fetch[w].reqs = 2

\* C11: after a checkpoint is saved and then loaded, the RunConfig is in
\* every field (Offset included) the one in use before the save, the
\* statistics keep the totals and counters, all four rate fields are zero and
\* StartTime is the load moment.
C11_CheckpointRoundTrip ==
    (runs > 1 /\ mainPc = "setup") =>
        /\ p = beforeSave.p
        /\ stats.TotalDownloads = beforeSave.stats.TotalDownloads
        /\ stats.completedOK = beforeSave.stats.completedOK
        /\ stats.completedFailed = beforeSave.stats.completedFailed
        /\ stats.bytesDownloaded = beforeSave.stats.bytesDownloaded
        /\ stats.SpeedBytesPerSec = 0
        /\ stats.SpeedFilesPerSec = 0
        /\ stats.AverageSpeedBytesPerSec = 0
        /\ stats.AverageSpeedFilesPerSec = 0
        /\ stats.StartTime = runs

\* the input lines that parsed, by position
ParsedJobs == {i \in 1..Len(urls) : urls[i] # NilURL}

\* C12: the job list is exactly the input lines that parse as a URL: once
\* the list is built totalJobs is the number of parseable lines, and no job
\* without a URL is handed to a worker.
C12_OnlyParsedLinesAreJobs ==
    /\ mainPc # "setup" => stats.TotalDownloads = Cardinality(ParsedJobs)
    /\ \A w \in Workers : cur[w] # 0 => urls[cur[w]] # NilURL

\* C13: after startup no step (worker, interrupt handler, checkpoint save)
\* changes any field of the RunConfig.
C13_RunConfigImmutable ==
    [][mainPc # "setup" => p' = p]_vars

\* C14: no job is taken from the job queue without being processed: while
\* the process runs, every job sent so far has yielded its one result or is
\* held by a worker that is processing it.
C14_DequeuedJobsYieldResults ==
    Running =>
        \A j \in 1..sendIdx :
            /\ emitted[j] <= 1
            /\ \/ emitted[j] = 1
               \/ \E w \in Workers : cur[w] = j /\ pc[w] \in InFlight \cup {"check"}

\* C15: a job whose request cannot be built makes no network request, has
\* no file created or truncated at its target path, does not crash the
\* process, and any result it emits is a failed one.
C15_RequestFailureAbortsJob ==
    \A j \in 1..Len(urls) :
        urls[j] = BrokenURL =>
            /\ ~requested[j]
            /\ fileOps[j] = 0
            /\ panicCause # "nilBody"
            /\ \A e \in BagToSet(results) : e.job = j => ~e.Result

C17_ResultSendNeverBlocks ==
    /\ BagCardinality(results) <= stats.TotalDownloads
    /\ Running =>
           \A w \in Workers :
               pc[w] \in {"send", "skipsend"} => BagCardinality(results) < ResultsCap

C17_Witness ==
    /\ Running /\ mainPc = "send"
    /\ stats.TotalDownloads = 2
    /\ BagCardinality(results) = 1
    /\ \E w \in Workers : pc[w] = "send"

\* C18: in a run resumed from a checkpoint completedOK + completedFailed
\* never exceeds totalJobs.
C18_ResumedCountsBounded ==
    runs > 1 => Completed <= stats.TotalDownloads

\* C19: no two workers have the same target path open for writing at the
\* same time, and a file a job has written is not truncated or overwritten by
\* another job of the run.
C19_NoSharedTargetPath ==
    /\ \A v, w \in Workers :
          (v # w /\ pc[v] = "copy" /\ pc[w] = "copy") =>
              urls[cur[v]] # urls[cur[w]]
    /\ \A j \in 1..Len(urls) :
          (fileOps[j] = 1 /\ emitted[j] = 1) => fs[urls[j]].by = j

====
